---- MODULE Spec2Model ----
(***************************************************************************)
(* Verification model of cocoon-breaker: the article store                 *)
(* (src/db/repository.py, src/db/database.py, src/db/migrations.py), the   *)
(* source crawlers (src/crawler/*.py) and the task scheduler               *)
(* (src/scheduler/tasks.py).                                               *)
(*                                                                         *)
(* Three specifications share the variables:                               *)
(*   Spec       the scheduler: start/stop, the loop thread, manual         *)
(*              triggers, the run body                                     *)
(*   StoreSpec  ArticleRepository.create calls interleaved on the shared   *)
(*              connection                                                 *)
(*   CrawlSpec  one crawl() call of each crawler over a transport whose    *)
(*              requests succeed or raise                                  *)
(***************************************************************************)
EXTENDS Integers, Sequences, FiniteSets, TLC

(***************************************************************************)
(* Bounds                                                                  *)
(***************************************************************************)
MaxCalls == 2      \* concurrent create calls
MaxItems == 2      \* result items on one fetched page
MaxManual == 2     \* manual triggers (run-once or collect-only)
MaxStarts == 2     \* start() calls that arm a loop thread
MaxConns == 3
MaxArticles == 2
MaxTarget == 3
MaxCrawlHour == 2
MaxNow == 45      \* database connections opened by initialize

(***************************************************************************)
(* Article store                                                           *)
(***************************************************************************)
VARIABLES rows, schema, call

Calls == 1..MaxCalls
Loops == {"main", "sched"}
Urls == {"u1", "u2"}
Titles == {"tA", "tB"}
DefaultScore == 50
Scores == {DefaultScore, 87}

\* The event loop a create call runs on: manual triggers run on the main
\* loop, the periodic run on the loop asyncio.run makes in the scheduler thread.
LoopOf(c) == call[c].loop

NoCall == [pc |-> "idle", loop |-> "main", url |-> "u1", title |-> "tA", rowcount |-> 0, id |-> 0,
           analysis |-> [status |-> "none", score |-> 0],
           result |-> "pending", waited |-> FALSE, updateRaised |-> FALSE, after |-> {},
           analyzed |-> 0]

\* ArticleAnalyzer._failed_result
FailedResult == [status |-> "failed", score |-> DefaultScore]

\* What ArticleAnalyzer.analyze can return: a success with a clamped score,
\* or the failed result; every Exception inside is caught and turned into it.
AnalyzeResults == {[status |-> "success", score |-> s] : s \in Scores} \cup {FailedResult}

UrlStored(u) == \E i \in 1..Len(rows) : rows[i].url = u

RowsWithUrl(u) == {i \in 1..Len(rows) : rows[i].url = u}

\* mutant of InsertOrIgnore: INSERT OR REPLACE, the later title is stored
InsertOrReplace(u, t) ==
    IF UrlStored(u)
    THEN [i \in 1..Len(rows) |-> IF rows[i].url = u THEN [rows[i] EXCEPT !.title = t] ELSE rows[i]]
    ELSE Append(rows, [id |-> Len(rows) + 1, url |-> u, title |-> t,
                       status |-> "pending", score |-> -1])

\* INSERT OR IGNORE under UNIQUE(url): the row is added unless the url is there.
InsertOrIgnore(u, t) ==
    IF UrlStored(u) THEN rows
    ELSE Append(rows, [id |-> Len(rows) + 1, url |-> u, title |-> t,
                       status |-> "pending", score |-> -1])

\* UPDATE articles SET ... WHERE id = ?
UpdateRow(id, a) ==
    [i \in 1..Len(rows) |->
        IF rows[i].id = id THEN [rows[i] EXCEPT !.status = a.status, !.score = a.score]
        ELSE rows[i]]

\* The UPDATE names the analysis columns, which only migration 004 adds.
UpdateRaises == schema = "base"

\* A call may step when no other call of its loop is inside the blocking
\* analyzer call.
LoopFree(c) == \A d \in Calls \ {c} : LoopOf(d) = LoopOf(c) => call[d].pc # "analyze"

Finished == {d \in Calls : call[d].pc = "done"}

\* create, up to the awaited INSERT: the statement is queued on the connection
\* when the call is made and takes effect in queue order.
CreateInsert(c, l, u, t) ==
    /\ call[c].pc = "idle"
    /\ \A d \in Calls \ {c} : call[d].loop = l => call[d].pc # "analyze"
    /\ rows' = InsertOrIgnore(u, t)
    /\ call' = [call EXCEPT ![c] = [NoCall EXCEPT !.pc = "commit", !.loop = l, !.url = u, !.title = t,
                                       !.rowcount = IF UrlStored(u) THEN 0 ELSE 1,
                                       !.id = IF UrlStored(u) THEN 0 ELSE Len(rows) + 1,
                                       !.after = Finished]]
    /\ UNCHANGED schema

\* mutant of NewlyInserted: every create call goes on to the analyzer
NewlyInsertedAlways(c) == TRUE

\* `if cursor.rowcount > 0`
NewlyInserted(c) == call[c].rowcount > 0

\* commit, then the rowcount test: a duplicate returns None, a new row goes
\* on to the analyzer call.
CreateCommit(c) ==
    /\ call[c].pc = "commit"
    /\ LoopFree(c)
    /\ call' = [call EXCEPT ![c] =
                  IF NewlyInserted(c)
                  THEN [@ EXCEPT !.pc = "analyze"]
                  ELSE [@ EXCEPT !.pc = "done", !.result = "none"]]
    /\ UNCHANGED <<rows, schema>>

\* self.analyzer.analyze(...) returns: the call is synchronous, create has
\* waited for it.
CreateAnalyze(c, a) ==
    /\ call[c].pc = "analyze"
    /\ call' = [call EXCEPT ![c] = [@ EXCEPT !.pc = "update1", !.analysis = a, !.waited = TRUE,
                                             !.analyzed = @ + 1]]
    /\ UNCHANGED <<rows, schema>>

\* update_article_analysis with the analyzer's result
CreateUpdate(c) ==
    /\ call[c].pc = "update1"
    /\ LoopFree(c)
    /\ IF UpdateRaises
       THEN /\ call' = [call EXCEPT ![c] = [@ EXCEPT !.pc = "update2", !.updateRaised = TRUE]]
            /\ UNCHANGED rows
       ELSE /\ rows' = UpdateRow(call[c].id, call[c].analysis)
            /\ call' = [call EXCEPT ![c] = [@ EXCEPT !.pc = "done", !.result = "id"]]
    /\ UNCHANGED schema

\* the except branch: update_article_analysis with failed / 50; when this
\* raises too, the outer handler logs and re-raises.
CreateUpdateFailed(c) ==
    /\ call[c].pc = "update2"
    /\ LoopFree(c)
    /\ IF UpdateRaises
       THEN /\ call' = [call EXCEPT ![c] = [@ EXCEPT !.pc = "done", !.result = "raised"]]
            /\ UNCHANGED rows
       ELSE /\ rows' = UpdateRow(call[c].id, FailedResult)
            /\ call' = [call EXCEPT ![c] = [@ EXCEPT !.pc = "done", !.result = "id"]]
    /\ UNCHANGED schema

\* run_migrations: migration 004 adds the analysis columns
Migrate ==
    /\ schema = "base"
    /\ schema' = "migrated"
    /\ UNCHANGED <<rows, call>>

storeVars == <<rows, schema, call>>

\* an empty articles table, created by Database.connect alone or migrated
StoreInit0 ==
    /\ rows = <<>>
    /\ schema \in {"base", "migrated"}
    /\ call = [c \in Calls |-> NoCall]

\* the store at rest, for the specifications that do not exercise it
StoreIdle == rows = <<>> /\ schema = "migrated" /\ call = [c \in Calls |-> NoCall]

(***************************************************************************)
(* Source crawlers: one crawl(keyword, max_results) call                   *)
(***************************************************************************)
VARIABLES cr

Crawlers == {"baidu", "bing", "yahoo", "google", "tavily", "kr36", "huxiu", "toutiao"}

\* the crawlers that visit the engine's homepage for cookies first
HomepageFirst == {"baidu", "bing", "yahoo"}

\* the crawlers that read an RSS feed through ET.fromstring
FeedCrawlers == {"kr36", "huxiu"}

\* the max_results values a caller passes: below and above one page of items
ResultLimits == {1, 11}

\* ToutiaoCrawler.crawl: max_pages = min(3, (max_results + 9) // 10)
MaxPages(maxr) == IF (maxr + 9) \div 10 < 3 THEN (maxr + 9) \div 10 ELSE 3

\* articles[:max_results]
Truncate(seq, n) == IF Len(seq) <= n THEN seq ELSE SubSeq(seq, 1, n)

IdleCrawl == [kind |-> "none", pc |-> "idle", maxr |-> 1, items |-> 0, idx |-> 0,
              page |-> 0, articles |-> <<>>, reqs |-> 0, oks |-> 0,
              driver |-> "none", result |-> "none", out |-> <<>>, flagged |-> {}]

\* return from crawl with the given list
Return(c, list) == [c EXCEPT !.pc = "done", !.result = "returned", !.out = list]

\* mutant of OuterExcept: the outermost handler lets the exception out
OuterExceptReraises(c) == [c EXCEPT !.pc = "done", !.result = "raised"]

\* what the crawler's outermost except clause does with an exception raised
\* in the body: Baidu and Bing fall through to `return articles`, the others
\* `return []`.
OuterExcept(c) ==
    IF c.kind \in {"baidu", "bing"} THEN Return(c, c.articles) ELSE Return(c, <<>>)

\* ToutiaoCrawler.crawl returns through `finally: self._close_driver()`
ThroughFinally(c) ==
    IF c.kind = "toutiao" /\ c.driver # "none" THEN [c EXCEPT !.pc = "close"] ELSE c

\* crawl is entered. GoogleCrawler returns [] at once without credentials;
\* Toutiao goes to _init_driver.
CrawlBegin(k, maxr, creds) ==
    /\ cr.pc = "idle"
    /\ cr' = IF k = "google" /\ ~creds
             THEN Return([cr EXCEPT !.kind = k, !.maxr = maxr], <<>>)
             ELSE [cr EXCEPT !.kind = k, !.maxr = maxr,
                             !.pc = IF k \in HomepageFirst THEN "home"
                                    ELSE IF k = "toutiao" THEN "init" ELSE "search"]

\* the homepage request. Baidu and Bing make it inside the outer try; Yahoo
\* wraps it (and the call of the undefined _random_sleep) in a try of its own
\* and goes on to the search either way.
HomeRequest(ok) ==
    /\ cr.pc = "home"
    /\ LET c == [cr EXCEPT !.reqs = @ + 1, !.oks = IF ok THEN @ + 1 ELSE @]
       IN cr' = IF ok \/ c.kind = "yahoo" THEN [c EXCEPT !.pc = "search"]
                ELSE OuterExcept(c)

\* BaiduCrawler.crawl, a positive security check ("安全验证" or
\* "verify.baidu.com" in the response text): a warning is logged and the
\* crawl goes on to select and parse the result items of that page.
BaiduSecurityCheck(c) == c

\* the search / API / feed request and the parse of the response body:
\* the transport raises, the body cannot be parsed (feed XML, API JSON, or an
\* API error object), or a page with n result items arrives. Of a page that
\* arrives, Baidu's security check may be positive ("captcha").
SearchRequest(resp, n) ==
    /\ cr.pc = "search"
    /\ resp \in {"raise", "malformed", "page", "captcha"}
    /\ resp = "malformed" => cr.kind \in FeedCrawlers \cup {"google", "tavily"}
    /\ resp = "captcha" => cr.kind = "baidu"
    /\ LET c0 == [cr EXCEPT !.reqs = @ + 1, !.oks = IF resp = "raise" THEN @ ELSE @ + 1,
                            !.flagged = IF resp = "captcha" THEN @ \cup {cr.page} ELSE @]
           c == IF resp = "captcha" THEN BaiduSecurityCheck(c0) ELSE c0
       IN cr' = CASE resp = "raise" -> OuterExcept(c)
                  [] resp = "malformed" -> Return(c, <<>>)
                  [] n = 0 -> Return(c, c.articles)
                  [] OTHER -> [c EXCEPT !.pc = "parse", !.idx = 1,
                                        !.items = IF c.kind \in {"baidu", "bing"}
                                                  THEN (IF n <= c.maxr THEN n ELSE c.maxr)
                                                  ELSE n]

\* one result item: it becomes an article, is skipped (None, an ad, no
\* keyword match), or its parse raises inside the per-item try.
\* Yahoo and the feeds stop at max_results articles.
ParseItem(outcome) ==
    /\ cr.pc = "parse"
    /\ cr.kind # "toutiao"
    /\ LET full == cr.kind \in FeedCrawlers \cup {"yahoo"} /\ Len(cr.articles) >= cr.maxr
           arts == IF outcome = "article" /\ ~full
                   THEN Append(cr.articles, cr.idx) ELSE cr.articles
           c == [cr EXCEPT !.articles = arts, !.idx = @ + 1]
       IN cr' = IF full \/ cr.idx = cr.items THEN Return(c, arts) ELSE c

\* ToutiaoCrawler._init_driver: keeps a driver left over from an earlier
\* call, else starts Chrome, which may raise.
InitDriver(o) ==
    /\ cr.pc = "init"
    /\ o \in {"ok", "no_browser", "setup_raises"}
    /\ cr' = IF cr.driver # "none" THEN [cr EXCEPT !.pc = "page", !.page = 0]
             ELSE CASE o = "ok" -> [cr EXCEPT !.pc = "page", !.page = 0, !.driver = "live"]
                    [] o = "no_browser" -> Return(cr, <<>>)
                    [] OTHER -> ThroughFinally(Return([cr EXCEPT !.driver = "live"], <<>>))

\* after a page: enough articles or no page left ends the loop
NextPage(c) ==
    IF Len(c.articles) >= c.maxr \/ c.page + 1 >= MaxPages(c.maxr)
    THEN ThroughFinally(Return(c, Truncate(c.articles, c.maxr)))
    ELSE [c EXCEPT !.pc = "page", !.page = @ + 1]

\* the page is skipped with `continue`: the length test is not reached
SkipPage(c) ==
    IF c.page + 1 >= MaxPages(c.maxr)
    THEN ThroughFinally(Return(c, Truncate(c.articles, c.maxr)))
    ELSE [c EXCEPT !.pc = "page", !.page = @ + 1]

\* Toutiao: driver.get of one page. It raises (a stale driver always does),
\* lands on an invalid URL, shows a verification page, or has n links.
LoadPage(resp, n) ==
    /\ cr.pc = "page"
    /\ resp \in {"raise", "invalid", "captcha", "page"}
    /\ cr.driver = "stale" => resp = "raise"
    /\ LET c == [cr EXCEPT !.reqs = @ + 1, !.oks = IF resp = "raise" THEN @ ELSE @ + 1,
                           !.flagged = IF resp = "captcha" THEN @ \cup {cr.page} ELSE @]
       IN cr' = CASE resp = "raise" -> ThroughFinally(Return(c, <<>>))
                  [] resp \in {"invalid", "captcha"} -> SkipPage(c)
                  [] n = 0 -> NextPage(c)
                  [] OTHER -> [c EXCEPT !.pc = "parse", !.idx = 1, !.items = n]

\* Toutiao: _parse_link of one link element
ParseLink(outcome) ==
    /\ cr.pc = "parse"
    /\ cr.kind = "toutiao"
    /\ LET arts == IF outcome = "article" THEN Append(cr.articles, cr.idx + 10 * cr.page)
                   ELSE cr.articles
           c == [cr EXCEPT !.articles = arts, !.idx = @ + 1]
       IN cr' = IF cr.idx = cr.items THEN NextPage(c) ELSE c

\* ToutiaoCrawler._close_driver: quit() may raise, which is logged and leaves
\* self.driver set.
CloseDriver(ok) ==
    /\ cr.pc = "close"
    /\ cr' = [cr EXCEPT !.pc = "done", !.driver = IF ok THEN "none" ELSE "stale"]

\* the next crawl call on the same crawler objects
CrawlAgain ==
    /\ cr.pc = "done"
    /\ cr' = [IdleCrawl EXCEPT !.driver = cr.driver]

CrawlInit == cr = IdleCrawl

(***************************************************************************)
(* Scheduler: TaskScheduler and DailyReportTask                            *)
(***************************************************************************)
VARIABLES running,           \* DailyReportTask._running
          taskDb,            \* task.db: "none", "connecting" (object made, connect awaited), "ready"
          conn,              \* the connection the task's repositories use: "none", "open", "closed"
          connsOpened,       \* connections opened by initialize
          stop_event,        \* TaskScheduler._stop_event
          jobs,              \* jobs registered in the schedule module
          scheduler_thread,  \* TaskScheduler.scheduler_thread: 0 is None
          scheduleEnabled,   \* the stored ScheduleConfig.enabled
          schedule_repo,     \* the object in task.schedule_repo
          enabledSubs,       \* keywords of the subscriptions with enabled = 1
          proc,              \* manual triggers and loop threads
          life,              \* the start() / stop() call in progress
          loopOwner          \* the coroutine running on the main loop between awaits

Manuals == {<<"m", i>> : i \in 1..MaxManual}
Threads == {<<"t", i>> : i \in 1..MaxStarts}
Procs == Manuals \cup Threads
Keywords == {"k1", "k2"}

\* ORDER BY created_at DESC
SubOrder == <<"k2", "k1">>

IsEnabled(k) == k \in enabledSubs

\* mutant of EnabledList: the query without its WHERE clause
EnabledListAll == SubOrder

\* SubscriptionRepository.get_enabled
EnabledList == SelectSeq(SubOrder, IsEnabled)

NoProc == [kind |-> "none", pc |-> "idle", snap |-> <<>>, pos |-> 0, caughtAt |-> 0,
           left |-> 0, result |-> "none", visited |-> <<>>]

\* the repositories exist and their connection is open
ReposUsable == taskDb = "ready" /\ conn = "open"

\* the run body, between `self._running = True` and the finally clause
InRunBody(p) == proc[p].kind \in {"run_once", "periodic"} /\ proc[p].pc \in {"get_enabled", "processing"}

\* the per-keyword fetch/dedup path of a run or a collect-only execution
InFetchPath(p) == proc[p].pc = "processing"

ThreadAlive(p) == proc[p].pc \notin {"idle", "stopped", "crashed"}

\* a main-loop coroutine runs only while no other one is between awaits
MayStep(p) == p \in Threads \/ loopOwner \in {<<"none", 0>>, p}

NoOwner == <<"none", 0>>

\* `if self._running: return`, else on to `self._running = True`
RunCheck(r, p) ==
    IF running THEN [r EXCEPT !.pc = IF p \in Threads THEN "poll" ELSE "done", !.result = "skipped"]
    ELSE [r EXCEPT !.pc = "set"]

\* the loop owner after p has made the step to record r
OwnerAfter(r, p) == IF p \in Manuals /\ r.pc = "set" THEN p ELSE NoOwner

\* mutant of TaskDbAssigned: task.db is assigned only after connect
TaskDbUnassigned == "none"

\* initialize assigns self.db = Database(path) before it awaits connect
TaskDbAssigned == "connecting"

\* run_once / collect_articles_only are called (the application serves
\* requests only when start() did not raise out of the lifespan): the lazy
\* initialize when
\* task.db is None (self.db is assigned before connect is awaited), else
\* straight into run() or the subscription query.
TriggerEnter(p, kind) ==
    /\ p \in Manuals
    /\ proc[p].pc = "idle"
    /\ life # "start_raised"
    /\ MayStep(p)
    /\ LET r == [NoProc EXCEPT !.kind = kind]
           q == IF taskDb = "none" THEN [r EXCEPT !.pc = "init_wait"]
                ELSE IF kind = "run_once" THEN RunCheck(r, p)
                ELSE [r EXCEPT !.pc = "get_enabled"]
       IN /\ proc' = [proc EXCEPT ![p] = q]
          /\ loopOwner' = OwnerAfter(q, p)
    /\ taskDb' = IF taskDb = "none" THEN TaskDbAssigned ELSE taskDb
    /\ UNCHANGED <<running, conn, connsOpened, stop_event, jobs, scheduler_thread,
                   scheduleEnabled, schedule_repo, enabledSubs, life>>

\* initialize resumes after connect: the connection is open, the
\* repositories are made; the trigger goes on as above.
InitResume(p) ==
    /\ proc[p].pc = "init_wait"
    /\ MayStep(p)
    /\ taskDb' = "ready"
    /\ conn' = "open"
    /\ connsOpened' = connsOpened + 1
    /\ LET q == IF proc[p].kind = "run_once" THEN RunCheck(proc[p], p)
                ELSE [proc[p] EXCEPT !.pc = "get_enabled"]
       IN /\ proc' = [proc EXCEPT ![p] = q]
          /\ loopOwner' = OwnerAfter(q, p)
    /\ UNCHANGED <<running, stop_event, jobs, scheduler_thread, scheduleEnabled, schedule_repo,
                   enabledSubs, life>>

\* self._running = True, then the subscription query is awaited. With no
\* usable repository the query raises before it suspends.
RunSet(p) ==
    /\ proc[p].pc = "set"
    /\ MayStep(p)
    /\ running' = TRUE
    /\ proc' = [proc EXCEPT ![p] = [@ EXCEPT !.pc = "get_enabled"]]
    /\ loopOwner' = IF p \in Manuals /\ ~ReposUsable THEN p
                    ELSE IF p \in Manuals THEN NoOwner ELSE loopOwner
    /\ UNCHANGED <<taskDb, conn, connsOpened, stop_event, jobs, scheduler_thread,
                   scheduleEnabled, schedule_repo, enabledSubs, life>>

\* the record of p after its run or collect-only execution has ended with
\* the given result. An exception out of a job ends the loop thread:
\* _run_scheduler and schedule.run_pending have no handler.
Ended(r, p, res) ==
    [r EXCEPT !.result = res, !.snap = <<>>, !.pos = 0,
              !.caughtAt = IF @ > 0 THEN 1 ELSE 0,
              !.left = IF r.pos = 0 THEN 0 ELSE Len(r.snap) - r.pos + 1,
              !.pc = IF p \in Manuals THEN "done"
                     ELSE IF res = "raised" THEN "crashed" ELSE "poll"]

\* mutant of RunningAfter: run without its finally clause
RunningKept(p) == running

\* the finally clause of run
RunningAfter(p) == IF proc[p].kind = "collect" THEN running ELSE FALSE

\* get_enabled returns or raises. run has no except clause around it, only
\* the finally; collect_articles_only has neither.
GetEnabled(p, ok) ==
    /\ proc[p].pc = "get_enabled"
    /\ MayStep(p)
    /\ ~ReposUsable => ~ok
    /\ LET list == EnabledList
           q == IF ~ok THEN Ended(proc[p], p, "raised")
                ELSE IF list = <<>> THEN Ended(proc[p], p, "empty")
                ELSE [proc[p] EXCEPT !.pc = "processing", !.snap = list, !.pos = 1]
       IN /\ proc' = [proc EXCEPT ![p] = q]
          /\ running' = IF q.pc = "processing" THEN running ELSE RunningAfter(p)
    /\ loopOwner' = IF p \in Manuals THEN NoOwner ELSE loopOwner
    /\ UNCHANGED <<taskDb, conn, connsOpened, stop_event, jobs, scheduler_thread,
                   scheduleEnabled, schedule_repo, enabledSubs, life>>

\* one subscription has been processed without an exception
Advance(r) == [r EXCEPT !.pos = @ + 1, !.visited = Append(@, r.snap[r.pos])]

\* mutant of Caught: the exception leaves the loop
CaughtAborts(r) == [r EXCEPT !.pc = "abort", !.caughtAt = IF @ = 0 THEN r.pos ELSE @,
                                !.visited = Append(@, r.snap[r.pos])]

\* the handler around one subscription, `except Exception: log; continue`:
\* the loop goes on with the next one
Caught(r) == [r EXCEPT !.pos = @ + 1, !.caughtAt = IF @ = 0 THEN r.pos ELSE @,
                          !.visited = Append(@, r.snap[r.pos])]

\* one subscription is processed to its end: _process_subscription (run) or
\* crawl + save (collect-only) returns or raises; after the last one the
\* execution ends.
ProcessSubscription(p, raised) ==
    /\ proc[p].pc = "processing"
    /\ MayStep(p)
    /\ LET r == IF raised THEN Caught(proc[p]) ELSE Advance(proc[p])
           q == IF r.pc = "abort" THEN Ended(r, p, "raised")
                ELSE IF r.pos > Len(r.snap) THEN Ended(r, p, "completed") ELSE r
       IN /\ proc' = [proc EXCEPT ![p] = q]
          /\ running' = IF q.pc = "processing" THEN running ELSE RunningAfter(p)
    /\ UNCHANGED <<taskDb, conn, connsOpened, stop_event, jobs, scheduler_thread,
                   scheduleEnabled, schedule_repo, enabledSubs, life, loopOwner>>

\* one turn of _run_scheduler: the loop ends when the stop event is set,
\* else run_pending fires the job when one is registered and due, and the
\* job enters run().
ThreadPoll(p, due) ==
    /\ p \in Threads
    /\ proc[p].pc = "poll"
    /\ proc' = [proc EXCEPT ![p] =
                  IF stop_event THEN [@ EXCEPT !.pc = "stopped"]
                  ELSE IF jobs > 0 /\ due
                       THEN RunCheck([NoProc EXCEPT !.kind = "periodic"], p)
                  ELSE @]
    /\ UNCHANGED <<running, taskDb, conn, connsOpened, stop_event, jobs, scheduler_thread,
                   scheduleEnabled, schedule_repo, enabledSubs, life, loopOwner>>

Lifecycle == <<"life", 0>>

\* what task.schedule_repo holds: the ScheduleRepository that initialize
\* makes, whose methods are get_config, update_config and _create_default,
\* or an object that answers get(), as the one the scheduler tests install.
ScheduleRepos == {"ScheduleRepository", "answers_get"}

\* `await self.task.schedule_repo.get()` finds the attribute
HasGet == schedule_repo = "answers_get"

\* start() is called, at startup or to arm again after a stop: initialize
\* is awaited unconditionally
StartBegin ==
    /\ life = "idle"
    /\ loopOwner = NoOwner
    /\ scheduler_thread = 0 \/ stop_event
    /\ scheduler_thread < MaxStarts
    /\ connsOpened < MaxConns
    /\ life' = "start_init"
    /\ taskDb' = "connecting"
    /\ UNCHANGED <<running, conn, connsOpened, stop_event, jobs, scheduler_thread,
                   scheduleEnabled, schedule_repo, enabledSubs, proc, loopOwner>>

\* the job is registered and the loop thread started
Arm(th) == [th EXCEPT !.kind = "periodic", !.pc = "poll"]

\* start() resumes: connection and repositories are ready, the schedule
\* config is asked for with schedule_repo.get(): the AttributeError of a
\* repository without get leaves start(); else disabled returns, enabled
\* registers the job and starts the loop thread.
StartArm ==
    /\ life = "start_init"
    /\ loopOwner = NoOwner
    /\ taskDb' = "ready"
    /\ conn' = "open"
    /\ connsOpened' = connsOpened + 1
    /\ IF ~HasGet
       THEN /\ life' = "start_raised"
            /\ UNCHANGED <<jobs, scheduler_thread, proc>>
       ELSE /\ life' = "idle"
            /\ IF scheduleEnabled
               THEN /\ jobs' = jobs + 1
                    /\ scheduler_thread' = scheduler_thread + 1
                    /\ proc' = [proc EXCEPT ![<<"t", scheduler_thread + 1>>] = Arm(@)]
               ELSE UNCHANGED <<jobs, scheduler_thread, proc>>
    /\ UNCHANGED <<running, stop_event, scheduleEnabled, schedule_repo, enabledSubs, loopOwner>>

\* stop() up to the join: the event is set, the jobs are cleared; join is
\* called when the thread is alive and blocks the main loop.
StopBegin ==
    /\ life = "idle"
    /\ loopOwner = NoOwner
    /\ stop_event' = TRUE
    /\ jobs' = 0
    /\ IF scheduler_thread > 0 /\ ThreadAlive(<<"t", scheduler_thread>>)
       THEN life' = "stop_join" /\ loopOwner' = Lifecycle
       ELSE life' = "stop_cleanup" /\ loopOwner' = NoOwner
    /\ UNCHANGED <<running, taskDb, conn, connsOpened, scheduler_thread, scheduleEnabled, schedule_repo,
                   enabledSubs, proc>>

\* join(timeout=2) returns: the thread has ended or the two seconds passed
StopJoin ==
    /\ life = "stop_join"
    /\ life' = "stop_cleanup"
    /\ loopOwner' = NoOwner
    /\ UNCHANGED <<running, taskDb, conn, connsOpened, stop_event, jobs, scheduler_thread,
                   scheduleEnabled, schedule_repo, enabledSubs, proc>>

\* mutant of StopOutcome: a cleanup error leaves stop()
StopOutcomeRaises(o) == IF o = "error" THEN "raised" ELSE "returned"

\* what stop() does with the outcome of wait_for(task.cleanup(), 2): every
\* outcome is logged and stop returns.
StopOutcome(o) == "returned"

\* cleanup under wait_for: db.close() completes, times out (the close may
\* or may not have happened) or raises.
StopCleanup(o, closed) ==
    /\ life = "stop_cleanup"
    /\ loopOwner = NoOwner
    /\ o \in {"ok", "timeout", "error"}
    /\ o = "ok" => closed
    /\ o = "error" => ~closed
    /\ conn' = IF taskDb = "ready" /\ closed /\ conn = "open" THEN "closed" ELSE conn
    /\ life' = StopOutcome(o)
    /\ UNCHANGED <<running, taskDb, connsOpened, stop_event, jobs, scheduler_thread,
                   scheduleEnabled, schedule_repo, enabledSubs, proc, loopOwner>>

\* the caller of stop() has it back
StopReturn ==
    /\ life \in {"returned", "raised"}
    /\ life' = "idle"
    /\ UNCHANGED <<running, taskDb, conn, connsOpened, stop_event, jobs, scheduler_thread,
                   scheduleEnabled, schedule_repo, enabledSubs, proc, loopOwner>>

schedVars == <<running, taskDb, conn, connsOpened, stop_event, jobs, scheduler_thread,
               scheduleEnabled, schedule_repo, enabledSubs, proc, life, loopOwner>>

SchedInit ==
    /\ running = FALSE
    /\ taskDb = "none"
    /\ conn = "none"
    /\ connsOpened = 0
    /\ stop_event = FALSE
    /\ jobs = 0
    /\ scheduler_thread = 0
    /\ scheduleEnabled \in BOOLEAN
    /\ schedule_repo \in ScheduleRepos
    /\ enabledSubs \in SUBSET Keywords
    /\ proc = [p \in Procs |-> NoProc]
    /\ life = "idle"
    /\ loopOwner = NoOwner

SchedIdle ==
    /\ running = FALSE /\ taskDb = "none" /\ conn = "none" /\ connsOpened = 0
    /\ stop_event = FALSE /\ jobs = 0 /\ scheduler_thread = 0
    /\ scheduleEnabled = TRUE /\ schedule_repo = "ScheduleRepository" /\ enabledSubs = {}
    /\ proc = [p \in Procs |-> NoProc] /\ life = "idle" /\ loopOwner = NoOwner



(***************************************************************************)
(* search_utils.resolve_url                                                *)
(***************************************************************************)
VARIABLES web,   \* what a HEAD request for each http url ends in
          rs     \* one resolve_url call with its recursive calls

\* jump links of the search engines ("baidu.com/link?url=", "bing.com/ck/ms")
RedirectLinks == {"linkA", "linkB"}

\* urls a request is made for
HttpUrls == RedirectLinks \cup {"page"}

\* urls returned without a request: empty or not http, or of a listed domain
PlainUrls == {"", "github.com"}

\* what a parameter of a verification page's url names: a jump link,
\* another page, or nothing usable
Targets == RedirectLinks \cup {"page", "none"}

\* requests.head(url, allow_redirects=True): it raises (time-out, too many
\* redirects), or ends at a final url: the url itself, another page, or a
\* verification page ("wappass.baidu.com", "captcha") with its target.
Responses ==
    {[kind |-> k, target |-> "none"] : k \in {"raises", "self", "page"}}
      \cup {[kind |-> "captcha", target |-> t] : t \in Targets}

\* the interpreter's recursion limit, in resolve_url calls: the only thing
\* that ends a chain of recursive calls
RecursionLimit == 8

IdleResolve == [pc |-> "idle", url |-> "", hops |-> 0, depth |-> 0, out |-> ""]

\* resolve_url(url) is called: the entry tests return the url unchanged,
\* else a request follows
ResolveCall(u) ==
    /\ rs.pc = "idle"
    /\ rs' = IF u \in PlainUrls
             THEN [rs EXCEPT !.pc = "done", !.url = u, !.out = u]
             ELSE [rs EXCEPT !.pc = "head", !.url = u, !.depth = 1]
    /\ UNCHANGED web

\* a frame deeper than the interpreter allows raises RecursionError inside
\* the try block; `except Exception` returns the url of that frame
Recurse(r, target) ==
    IF r.depth >= RecursionLimit
    THEN [r EXCEPT !.pc = "done", !.out = r.url]
    ELSE [r EXCEPT !.pc = "head", !.url = target, !.depth = @ + 1]

\* one hop: the HEAD request of the current frame and what the body does
\* with final_url. A verification page whose target parameter is a jump
\* link makes the recursive call, whose value every frame above returns.
ResolveHop ==
    /\ rs.pc = "head"
    /\ LET resp == web[rs.url]
           r == [rs EXCEPT !.hops = @ + 1]
       IN rs' = CASE resp.kind = "raises" -> [r EXCEPT !.pc = "done", !.out = rs.url]
                  [] resp.kind = "self" -> [r EXCEPT !.pc = "done", !.out = rs.url]
                  [] resp.kind = "page" -> [r EXCEPT !.pc = "done", !.out = "page"]
                  [] resp.target \in RedirectLinks -> Recurse(r, resp.target)
                  [] resp.target = "page" -> [r EXCEPT !.pc = "done", !.out = "page"]
                  [] OTHER -> [r EXCEPT !.pc = "done", !.out = "captcha_page"]
    /\ UNCHANGED web

\* the next call of resolve_url
ResolveAgain ==
    /\ rs.pc = "done"
    /\ rs' = IdleResolve
    /\ UNCHANGED web

resolveVars == <<web, rs>>

\* any answers of the web; a page answers with itself or not at all
ResolveInit ==
    /\ web \in [HttpUrls -> Responses]
    /\ web["page"].kind \in {"self", "raises"}
    /\ rs = IdleResolve

ResolveIdle ==
    /\ web = [u \in HttpUrls |-> [kind |-> "raises", target |-> "none"]]
    /\ rs = IdleResolve

(***************************************************************************)
(* search_utils.search_if_needed                                           *)
(***************************************************************************)
VARIABLES fan    \* one search_if_needed call with its pool of searches

MaxQueries == 2     \* [SEARCH: ...] expressions in one text
MaxProviders == 2   \* names in SEARCH_PROVIDER

Queries == {"q1", "q2"}

\* names SEARCH_PROVIDER may hold: "bing" stands for the providers whose
\* result is returned under their own name (tavily, bing, baidu, yahoo,
\* mojeek), "other" is a name the function does not know
Providers == {"bing", "duckduckgo", "google", "other"}

SeqsUpTo(S, n) == UNION {[1..k -> S] : k \in 0..n}

\* what one provider search does: it returns results, returns its failure
\* text ("... 搜索失败 ..."), or raises
Outcomes == {"results", "failed", "raises"}

NoFan == [pc |-> "idle", queries |-> <<>>, providers |-> <<>>, tasks |-> <<>>,
          futures |-> <<>>, groups |-> <<>>, result |-> "none"]

Pending == [state |-> "pending", res |-> "none", tag |-> "none"]

\* mutant of PerformSingleSearch: an exception of the search leaves the task
PerformSingleSearchRaises(provider, o, fb) ==
    IF o = "raises" \/ (provider = "duckduckgo" /\ o = "failed" /\ fb = "raises")
    THEN [state |-> "raised", res |-> "error", tag |-> provider]
    ELSE [state |-> "returned", res |-> o, tag |-> provider]

\* perform_single_search(query, provider): the value and the provider label
\* the task returns. o is the outcome of the provider's own search, fb the
\* outcome of the bing_search call made when DuckDuckGo reports a failure.
PerformSingleSearch(provider, o, fb) ==
    CASE o = "raises" -> [state |-> "returned", res |-> "error", tag |-> provider]
      [] provider = "google" -> [state |-> "returned", res |-> o, tag |-> "google (API)"]
      [] provider = "other" -> [state |-> "returned", res |-> o, tag |-> "bing (default)"]
      [] provider = "duckduckgo" /\ o = "failed" ->
            IF fb = "raises" THEN [state |-> "returned", res |-> "error", tag |-> provider]
            ELSE [state |-> "returned", res |-> fb, tag |-> "bing (fallback)"]
      [] OTHER -> [state |-> "returned", res |-> o, tag |-> provider]

\* the (query, provider) pairs, query by query
SearchTasks(qs, ps) ==
    [k \in 1..(Len(qs) * Len(ps)) |->
        [query |-> qs[((k - 1) \div Len(ps)) + 1], provider |-> ps[((k - 1) % Len(ps)) + 1]]]

\* search_if_needed(text): without a search expression it returns "";
\* an empty provider list becomes ["bing"]; every pair is submitted.
FanCall(qs, ps) ==
    /\ fan.pc = "idle"
    /\ LET eff == IF ps = <<>> THEN <<"bing">> ELSE ps
           tasks == SearchTasks(qs, eff)
       IN fan' = IF qs = <<>>
                 THEN [NoFan EXCEPT !.pc = "done", !.providers = eff, !.result = "returned"]
                 ELSE [NoFan EXCEPT !.pc = "collect", !.queries = qs, !.providers = eff,
                                    !.tasks = tasks,
                                    !.futures = [k \in 1..Len(tasks) |-> Pending]]

\* one submitted search ends, in any order
SearchEnds(k, o, fb) ==
    /\ fan.pc \in {"collect", "shutdown"}
    /\ k \in 1..Len(fan.futures)
    /\ fan.futures[k].state = "pending"
    /\ fan' = [fan EXCEPT !.futures[k] = PerformSingleSearch(fan.tasks[k].provider, o, fb)]

\* the collecting loop takes future.result() of the next future in
\* submission order; an exception of the task comes out of result()
\* and leaves the with block, which waits for the pool.
Collect ==
    /\ fan.pc = "collect"
    /\ LET k == Len(fan.groups) + 1
           f == fan.futures[k]
       IN /\ f.state # "pending"
          /\ fan' = IF f.state = "raised"
                    THEN [fan EXCEPT !.pc = "shutdown", !.result = "raised"]
                    ELSE LET g == [query |-> fan.tasks[k].query, tag |-> f.tag, res |-> f.res]
                         IN [fan EXCEPT !.groups = Append(@, g),
                                        !.pc = IF k = Len(fan.futures) THEN "shutdown" ELSE "collect",
                                        !.result = IF k = Len(fan.futures) THEN "returned" ELSE @]

\* the with block ends when every search of the pool has ended
FanReturn ==
    /\ fan.pc = "shutdown"
    /\ \A k \in 1..Len(fan.futures) : fan.futures[k].state # "pending"
    /\ fan' = [fan EXCEPT !.pc = "done"]

FanAgain ==
    /\ fan.pc = "done"
    /\ fan' = NoFan

FanIdle == fan = NoFan

(***************************************************************************)
(* DeepseekClient.chat_completion and search_utils.google_search_api       *)
(***************************************************************************)
VARIABLES llm,    \* one chat_completion call
          gapi    \* one google_search_api call

MaxRetries == 3     \* largest max_retries a caller passes

\* how one requests.post of chat_completion ends: a response with content
\* or with none, a time-out, an HTTP status raised by raise_for_status, a
\* connection error, or an exception that is no RequestException
PostOutcomes == {"content", "empty", "timeout", "http_4xx", "http_429", "http_5xx",
                 "connection", "unexpected"}

\* the outcomes the two RequestException handlers take: requests.Timeout, and
\* every other RequestException, HTTPError of any status among them
Retried == {"timeout", "http_4xx", "http_429", "http_5xx", "connection"}

\* mutant of Backoff: the same delay after every failure
BackoffFlat(attempt) == 1

\* time.sleep(2 ** attempt)
Backoff(attempt) == 2 ^ attempt

NoChat == [pc |-> "idle", max_retries |-> 0, attempt |-> 0, outcomes |-> <<>>,
           delays |-> <<>>, out |-> "none"]

\* chat_completion is called: `for attempt in range(self.max_retries)`
ChatCall(mr) ==
    /\ llm.pc = "idle"
    /\ llm' = IF mr = 0 THEN [NoChat EXCEPT !.pc = "done", !.out = "None"]
              ELSE [NoChat EXCEPT !.pc = "post", !.max_retries = mr]
    /\ UNCHANGED gapi

\* one pass of the loop: the request and its handler. Content is returned;
\* an empty content and an unexpected exception return None; a
\* RequestException sleeps unless the attempt was the last and goes on; after
\* the last attempt the function returns None.
ChatAttempt(o) ==
    /\ llm.pc = "post"
    /\ LET r == [llm EXCEPT !.outcomes = Append(@, o)]
           last == llm.attempt = llm.max_retries - 1
       IN llm' = CASE o = "content" -> [r EXCEPT !.pc = "done", !.out = "content"]
                   [] o \in {"empty", "unexpected"} -> [r EXCEPT !.pc = "done", !.out = "None"]
                   [] last -> [r EXCEPT !.pc = "done", !.out = "None"]
                   [] OTHER -> [r EXCEPT !.delays = Append(@, Backoff(llm.attempt)),
                                         !.attempt = @ + 1]
    /\ UNCHANGED gapi

ChatAgain ==
    /\ llm.pc = "done"
    /\ llm' = NoChat
    /\ UNCHANGED gapi

\* how one requests.get of google_search_api ends: items, no items, an
\* error object in the body, an HTTP status raised by raise_for_status, or
\* any other exception
GetOutcomes == {"items", "no_items", "api_error", "http_429", "http_4xx", "http_5xx", "exception"}

NoApi == [pc |-> "idle", max_retries |-> 0, attempt |-> 0, outcomes |-> <<>>,
          delays |-> <<>>, out |-> "none"]

\* google_search_api is called: without key or engine id it returns at once
ApiCall(mr, configured) ==
    /\ gapi.pc = "idle"
    /\ gapi' = IF ~configured THEN [NoApi EXCEPT !.pc = "done", !.out = "not_configured"]
               ELSE IF mr = 0 THEN [NoApi EXCEPT !.pc = "done", !.out = "failed"]
               ELSE [NoApi EXCEPT !.pc = "get", !.max_retries = mr]
    /\ UNCHANGED llm

\* time.sleep(3) after an HTTPError, time.sleep(2) after no items or another
\* exception
ApiDelay(o) == IF o \in {"http_4xx", "http_5xx"} THEN 3 ELSE 2

\* one pass of the loop. Items, an error object and status 429 return; no
\* items, every other HTTP status and every other exception sleep and go on
\* unless the attempt was the last.
ApiAttempt(o) ==
    /\ gapi.pc = "get"
    /\ LET r == [gapi EXCEPT !.outcomes = Append(@, o)]
           last == gapi.attempt = gapi.max_retries - 1
       IN gapi' = CASE o = "items" -> [r EXCEPT !.pc = "done", !.out = "results"]
                    [] o = "api_error" -> [r EXCEPT !.pc = "done", !.out = "api_error"]
                    [] o = "http_429" -> [r EXCEPT !.pc = "done", !.out = "quota"]
                    [] last -> [r EXCEPT !.pc = "done",
                                         !.out = IF o = "no_items" THEN "no_results" ELSE "failed"]
                    [] OTHER -> [r EXCEPT !.delays = Append(@, ApiDelay(o)), !.attempt = @ + 1]
    /\ UNCHANGED llm

ApiAgain ==
    /\ gapi.pc = "done"
    /\ gapi' = NoApi
    /\ UNCHANGED llm

retryVars == <<llm, gapi>>

RetryIdle == llm = NoChat /\ gapi = NoApi

(***************************************************************************)
(* search_utils.bing_search and baidu_search: requests first, then browser *)
(***************************************************************************)
VARIABLES srch     \* one bing_search or baidu_search call

SearchProviders == {"bing", "baidu"}

\* what the first *_search_requests call gave: results taken as relevant,
\* the failure text of an error, the text of zero results, or results the
\* caller's check takes as irrelevant (Bing: foreign World Economic Forum
\* results; Baidu: hot-search or advertisement noise for a query with a year)
LightOutcomes == {"relevant", "error", "zero", "irrelevant"}

NoSearch == [pc |-> "idle", provider |-> "bing", hasYear |-> FALSE, light |-> "none",
             optimized |-> "none", browser |-> "none", temp |-> "none", out |-> "none"]

\* bing_search / baidu_search is called with a query that names a year
\* (2024, 2025) or does not
SearchCall(pv, year) ==
    /\ srch.pc = "idle"
    /\ srch' = [NoSearch EXCEPT !.pc = "light", !.provider = pv, !.hasYear = year]

\* bing_search after the first requests attempt: relevant results are
\* returned; otherwise a query with a year is tried once more without it,
\* and a query without a year goes to the browser.
BingAfterLight(r, o) ==
    IF o = "relevant" THEN [r EXCEPT !.pc = "done", !.out = "light_results"]
    ELSE IF r.hasYear THEN [r EXCEPT !.pc = "optimized"]
    ELSE [r EXCEPT !.pc = "browser"]

\* baidu_search after the first requests attempt: a failure or zero results
\* goes to the browser; results are returned, except that for noisy results
\* of a query with a year the function calls re.sub before its own
\* `import re` has run, which raises UnboundLocalError.
BaiduAfterLight(r, o) ==
    CASE o \in {"error", "zero"} -> [r EXCEPT !.pc = "browser"]
      [] o = "irrelevant" -> [r EXCEPT !.pc = "done", !.out = "raised"]
      [] OTHER -> [r EXCEPT !.pc = "done", !.out = "light_results"]

\* the first, non-browser attempt; *_search_requests returns a text on
\* every path
LightAttempt(o) ==
    /\ srch.pc = "light"
    /\ (srch.provider = "baidu" /\ o = "irrelevant") => srch.hasYear
    /\ LET r == [srch EXCEPT !.light = o]
       IN srch' = IF srch.provider = "bing" THEN BingAfterLight(r, o) ELSE BaiduAfterLight(r, o)

\* bing_search: the requests attempt with the year removed; its results are
\* returned, its failure goes to the browser
OptimizedAttempt(ok) ==
    /\ srch.pc = "optimized"
    /\ srch' = IF ok THEN [srch EXCEPT !.optimized = "results", !.pc = "done", !.out = "optimized_results"]
             ELSE [srch EXCEPT !.optimized = "failed", !.pc = "browser"]

\* the browser part up to the inner try: mkdtemp makes the profile
\* directory, ChromiumPage is started (two tries). A start that fails twice
\* raises to the outer handler, past the inner finally.
BrowserStart(started) ==
    /\ srch.pc = "browser"
    /\ srch' = IF started THEN [srch EXCEPT !.pc = "fetch", !.temp = "exists", !.browser = "started"]
             ELSE [srch EXCEPT !.pc = "requests", !.temp = "exists", !.browser = "start_failed"]

\* the inner finally: page.quit(), then rmtree of the profile directory,
\* which an exception of quit() skips
ProfileAfterQuit(quitOk) == IF quitOk THEN "removed" ELSE "exists"

\* the inner try and its finally: the pages are fetched and parsed; results
\* are returned, none ends in the failure text, an exception (of the fetch
\* or of quit) goes to the outer handler.
BrowserFetch(o, quitOk) ==
    /\ srch.pc = "fetch"
    /\ o \in {"results", "none", "raises"}
    /\ LET r == [srch EXCEPT !.temp = ProfileAfterQuit(quitOk),
                           !.browser = IF quitOk THEN "quit" ELSE "quit_raised"]
       IN srch' = IF ~quitOk \/ o = "raises" THEN [r EXCEPT !.pc = "requests"]
                ELSE IF o = "results" THEN [r EXCEPT !.pc = "done", !.out = "browser_results"]
                ELSE [r EXCEPT !.pc = "done", !.out = "failed_text"]

\* the outer handler: `return *_search_requests(query, ...)`
FinalRequests(ok) ==
    /\ srch.pc = "requests"
    /\ srch' = [srch EXCEPT !.pc = "done", !.out = IF ok THEN "requests_results" ELSE "failed_text"]

SearchAgain ==
    /\ srch.pc = "done"
    /\ srch' = NoSearch

ProviderIdle == srch = NoSearch

(***************************************************************************)
(* ArticleFilter.filter_and_rank and its fallback                          *)
(***************************************************************************)
VARIABLES flt    \* one filter_and_rank call

ArticleIds == 1..MaxArticles
TargetCounts == 0..MaxTarget

\* an Article of the input list, and the copy _parse_filter_response makes
\* of it with the title and content the response gives
InputArticle(id) == [id |-> id, text |-> "original"]
RefinedArticle(id) == [id |-> id, text |-> "refined"]

\* the elements of the JSON list in a response: something that is not an
\* object, an object without "index", or an object with an integer index
ResponseItems ==
    {[t |-> "notdict", index |-> 0], [t |-> "null", index |-> 0]}
        \cup {[t |-> "idx", index |-> i] : i \in (0 - MaxArticles - 1)..MaxArticles}

\* what chat_completion returns: None, a text without a JSON list, a text
\* whose bracketed part json.loads rejects, or a text with a JSON list
Responses2 ==
    {[kind |-> k, items |-> <<>>] : k \in {"none", "no_json", "bad_json"}}
        \cup {[kind |-> "list", items |-> its] : its \in SeqsUpTo(ResponseItems, MaxArticles)}

\* articles[idx] for a Python index: negative indexes count from the end,
\* an index below -len raises IndexError (idx >= len is skipped before)
Subscript(articles, idx) ==
    IF idx >= 0 THEN [ok |-> TRUE, at |-> idx + 1]
    ELSE IF Len(articles) + idx >= 0 THEN [ok |-> TRUE, at |-> Len(articles) + idx + 1]
    ELSE [ok |-> FALSE, at |-> 0]

RECURSIVE ParseItems(_, _, _)
\* the loop of _parse_filter_response over the remaining items, with the
\* result list built so far: item.get on a non-object raises, a
\* missing or too large index is skipped, the article is copied and refined.
ParseItems(items, articles, acc) ==
    IF items = <<>> THEN [raised |-> FALSE, result |-> acc]
    ELSE LET item == Head(items)
         IN CASE item.t = "notdict" -> [raised |-> TRUE, result |-> <<>>]
              [] item.t = "null" \/ item.index >= Len(articles) ->
                     ParseItems(Tail(items), articles, acc)
              [] OTHER ->
                     LET sub == Subscript(articles, item.index)
                     IN IF ~sub.ok THEN [raised |-> TRUE, result |-> <<>>]
                        ELSE ParseItems(Tail(items), articles,
                                 Append(acc, [article |-> RefinedArticle(articles[sub.at].id),
                                              priority |-> "ai"]))

\* _parse_filter_response: ValueError without a JSON list, the exception of
\* json.loads, else the loop over the items
ParseFilterResponse(resp, articles) ==
    IF resp.kind \in {"no_json", "bad_json"} THEN [raised |-> TRUE, result |-> <<>>]
    ELSE ParseItems(resp.items, articles, <<>>)

\* mutant of FallbackFilter: the whole list, not cut to target_count
FallbackFilterAll(articles, target_count) ==
    [i \in 1..Len(articles) |-> [article |-> articles[i], priority |-> "medium"]]

\* _fallback_filter: articles[:target_count], each wrapped with priority
\* medium
FallbackFilter(articles, target_count) ==
    LET n == IF target_count < Len(articles) THEN target_count ELSE Len(articles)
    IN [i \in 1..n |-> [article |-> articles[i], priority |-> "medium"]]

NoFilter == [pc |-> "idle", articles |-> <<>>, target |-> 0, failed |-> FALSE, out |-> <<>>]

\* filter_and_rank is called; an empty list returns [] at once
FilterCall(ids, tc) ==
    /\ flt.pc = "idle"
    /\ LET arts == [i \in 1..Len(ids) |-> InputArticle(ids[i])]
       IN flt' = IF arts = <<>> THEN [NoFilter EXCEPT !.pc = "done", !.target = tc]
                 ELSE [NoFilter EXCEPT !.pc = "chat", !.articles = arts, !.target = tc]

\* chat_completion returns and the response is handled: None falls back,
\* a response whose parse raises falls back, else the parsed list is
\* returned.
FilterRespond(resp) ==
    /\ flt.pc = "chat"
    /\ LET parsed == ParseFilterResponse(resp, flt.articles)
           failed == resp.kind = "none" \/ parsed.raised
       IN flt' = [flt EXCEPT !.pc = "done", !.failed = failed,
                             !.out = IF failed THEN FallbackFilter(flt.articles, flt.target)
                                     ELSE parsed.result]

FilterAgain ==
    /\ flt.pc = "done"
    /\ flt' = NoFilter

FilterIdle == flt = NoFilter

(***************************************************************************)
(* Scoring at read time: list_articles and get_by_keyword_with_scoring     *)
(***************************************************************************)
VARIABLES sc     \* two stored articles and the last two times they were scored

\* scores are kept in thousandths; a product of two of them is cut back to
\* thousandths, as a double cuts a product to its precision
Milli == 1000

Scaled(a, b) == (a * b) \div Milli

AtMost(a, b) == IF a < b THEN a ELSE b
AtLeast(a, b) == IF a > b THEN a ELSE b

\* the bodies an article can have: content length, title length, source
Contents == {[len |-> 50, title |-> 5, source |-> "baidu"],
             [len |-> 1200, title |-> 20, source |-> "kr36"],
             [len |-> 3000, title |-> 60, source |-> "blog"]}

CrawlHours == 0..MaxCrawlHour

\* list_articles keeps its weights in the code; get_by_keyword_with_scoring
\* takes them as arguments, with the defaults 0.7, 0.3, 0.1
Formulas == {"list_articles", "with_scoring"}

\* list_articles: the length score, rising to 1.0 at 2000 characters and
\* falling to 0.7 after
LengthScore(len) ==
    IF len < 200 THEN (len * 600) \div 200
    ELSE IF len <= 2000 THEN 600 + ((len - 200) * 400) \div 1800
    ELSE AtLeast(700, Milli - ((len - 2000) * 300) \div 5000)

\* list_articles: the title score
TitleScore(tl) ==
    IF 10 <= tl /\ tl <= 50 THEN Milli
    ELSE IF tl < 10 THEN 600
    ELSE AtLeast(700, Milli - ((tl - 50) * 300) \div 50)

\* list_articles: source_weights.get(article.source, 1.0)
SourceWeight(src) ==
    CASE src \in {"kr36", "huxiu"} -> 1300
      [] src = "tavily" -> 1200
      [] src = "google" -> 1150
      [] src = "yahoo" -> 1100
      [] OTHER -> Milli

\* the quality score of an article under each formula
QualityScore(f, a) ==
    IF f = "list_articles"
    THEN AtMost(Milli, Scaled(Scaled(LengthScore(a.len), 400) + Scaled(TitleScore(a.title), 200),
                              SourceWeight(a.source))
                       + Scaled(SourceWeight(a.source) - Milli, 400))
    ELSE LET q == AtMost(Milli, a.len)
         IN IF a.source \in {"baidu", "bing", "google", "tavily"}
            THEN AtMost(Milli, Scaled(q, 1200)) ELSE q

\* exp(-time_decay_lambda) in thousandths: list_articles takes lambda 0.15,
\* 0.1 or 0.05 by content length, get_by_keyword_with_scoring 0.1
DecayPerHour(f, a) ==
    IF f = "with_scoring" THEN 905
    ELSE IF a.len < 500 THEN 861
    ELSE IF a.len < 1500 THEN 905
    ELSE 951

\* freshness_weight in thousandths
FreshnessWeight(f, a) ==
    IF f = "with_scoring" THEN 300
    ELSE IF a.len < 500 THEN 400
    ELSE IF a.len < 1500 THEN 300
    ELSE 200

\* quality_weight: 1.0 - freshness_weight, or the default 0.7
QualityWeight(f, a) == Milli - FreshnessWeight(f, a)

RECURSIVE Decay(_, _)
\* exp(-lambda * hours_old) for a whole number of hours, hour by hour; the
\* value reaches 0 when the product is below the last kept digit
Decay(perHour, hours_old) ==
    IF hours_old = 0 THEN Milli ELSE Scaled(Decay(perHour, hours_old - 1), perHour)

\* mutant of FreshnessScore: the score grows with the age
FreshnessGrows(f, a, hours_old) == Milli - Decay(DecayPerHour(f, a), hours_old)

\* freshness_score = math.exp(-time_decay_lambda * hours_old)
FreshnessScore(f, a, hours_old) == Decay(DecayPerHour(f, a), hours_old)

\* mutant of FinalScore: the freshness term is taken off the quality term
FinalScoreMinus(f, a, hours_old) ==
    Scaled(QualityWeight(f, a), QualityScore(f, a))
        - Scaled(FreshnessWeight(f, a), FreshnessScore(f, a, hours_old))

\* final_score = quality_weight * quality_score + freshness_weight * freshness_score
FinalScore(f, a, hours_old) ==
    Scaled(QualityWeight(f, a), QualityScore(f, a))
        + Scaled(FreshnessWeight(f, a), FreshnessScore(f, a, hours_old))

\* one article scored at the instant now
ScoreOf(f, art, now) ==
    [at |-> now,
     fresh |-> FreshnessScore(f, art.body, now - art.crawled_at),
     final |-> FinalScore(f, art.body, now - art.crawled_at)]

NoScore == [at |-> -1, fresh |-> 0, final |-> 0]

ScoreStart(f, b1, b2, t1, t2) ==
    [formula |-> f,
     arts |-> <<[body |-> b1, crawled_at |-> t1], [body |-> b2, crawled_at |-> t2]>>,
     now |-> MaxCrawlHour, cur |-> <<NoScore, NoScore>>, prev |-> <<NoScore, NoScore>>]

\* the articles are read and scored d hours after the last read
ScoreRead(d) ==
    /\ sc.now + d <= MaxNow
    /\ LET now == sc.now + d
       IN sc' = [sc EXCEPT !.now = now, !.prev = sc.cur,
                           !.cur = [i \in 1..2 |-> ScoreOf(sc.formula, sc.arts[i], now)]]

ScoreInit ==
    \E f \in Formulas, b1, b2 \in Contents, t1, t2 \in CrawlHours :
        sc = ScoreStart(f, b1, b2, t1, t2)

ScoreIdle ==
    LET b == CHOOSE x \in Contents : x.len = 50
    IN sc = ScoreStart("list_articles", b, b, 0, 0)

(***************************************************************************)
(* DailyReportTask._crawl_articles: the crawlers of one keyword            *)
(***************************************************************************)
VARIABLES gat    \* one _crawl_articles call

\* self.crawlers as initialize builds it: Baidu and Yahoo, then Google and
\* Tavily when they are configured
CrawlerLists ==
    {<<"BaiduCrawler", "YahooCrawler">>,
     <<"BaiduCrawler", "YahooCrawler", "GoogleCrawler">>,
     <<"BaiduCrawler", "YahooCrawler", "TavilyCrawler">>,
     <<"BaiduCrawler", "YahooCrawler", "GoogleCrawler", "TavilyCrawler">>}

\* the list a crawler returns: n articles of that crawler
CrawledBy(name, n) == [k \in 1..n |-> <<name, k>>]

NoGather == [pc |-> "idle", crawlers |-> <<>>, idx |-> 0, all_articles |-> <<>>,
             invoked |-> <<>>, returned |-> <<>>, out |-> <<>>]

GatherCall(cs) ==
    /\ gat.pc = "idle"
    /\ gat' = [NoGather EXCEPT !.pc = "crawling", !.crawlers = cs, !.idx = 1]

\* after one crawler: the next one, or `return all_articles`
NextCrawler(g) ==
    IF g.idx >= Len(g.crawlers) THEN [g EXCEPT !.pc = "done", !.out = g.all_articles]
    ELSE [g EXCEPT !.idx = @ + 1]

\* mutant of CrawlerFailed: the failure ends the loop
CrawlerFailedReturns(g) == [g EXCEPT !.pc = "done", !.out = g.all_articles]

\* `except Exception: log; continue`
CrawlerFailed(g) == NextCrawler(g)

\* run_in_executor(None, crawler.crawl, keyword, max_results) is awaited:
\* the crawler raises, or returns a list that extends all_articles
CrawlerEnds(raised, n) ==
    /\ gat.pc = "crawling"
    /\ LET name == gat.crawlers[gat.idx]
           g == [gat EXCEPT !.invoked = Append(@, name),
                            !.returned = Append(@, [raised |-> raised,
                                                    list |-> IF raised THEN <<>> ELSE CrawledBy(name, n)])]
       IN gat' = IF raised THEN CrawlerFailed(g)
                 ELSE NextCrawler([g EXCEPT !.all_articles = @ \o CrawledBy(name, n)])

GatherAgain ==
    /\ gat.pc = "done"
    /\ gat' = NoGather

GatherIdle == gat = NoGather

(***************************************************************************)
(* DailyReportTask._save_articles: create for each article of a list       *)
(***************************************************************************)
VARIABLES sv     \* one _save_articles call; its i-th create is call i of the store

\* the lists of articles (by url) handed to _save_articles
ArticleLists == UNION {[1..k -> Urls] : k \in 1..MaxCalls}

NoSave == [pc |-> "idle", articles |-> <<>>, idx |-> 0, saved_count |-> 0, caught |-> 0]

SaveCall(urls) ==
    /\ sv.pc = "idle"
    /\ sv' = [NoSave EXCEPT !.pc = "saving", !.articles = urls, !.idx = 1]
    /\ UNCHANGED storeVars

\* `article_id = await self.article_repo.create(article)` begins
SaveCreate(t) ==
    /\ sv.pc = "saving"
    /\ CreateInsert(sv.idx, "main", sv.articles[sv.idx], t)
    /\ UNCHANGED sv

\* create has ended: an id is counted, None is not, an exception is logged
\* and the loop goes on; after the last article saved_count is returned
SaveCollect ==
    /\ sv.pc = "saving"
    /\ call[sv.idx].pc = "done"
    /\ LET res == call[sv.idx].result
           s == [sv EXCEPT !.saved_count = IF res = "id" THEN @ + 1 ELSE @,
                           !.caught = IF res = "raised" THEN @ + 1 ELSE @]
       IN sv' = IF sv.idx >= Len(sv.articles) THEN [s EXCEPT !.pc = "done"]
                ELSE [s EXCEPT !.idx = @ + 1]
    /\ UNCHANGED storeVars

SaveIdle == sv = NoSave

(***************************************************************************)
(* All variables                                                           *)
(***************************************************************************)
utilVars == <<resolveVars, fan, retryVars, srch, flt, sc, gat, sv>>

UtilIdle == ResolveIdle /\ FanIdle /\ RetryIdle /\ ProviderIdle /\ FilterIdle /\ ScoreIdle /\ GatherIdle /\ SaveIdle

vars == <<storeVars, cr, schedVars, utilVars>>

(***************************************************************************)
(* Specifications                                                          *)
(***************************************************************************)
Init == SchedInit /\ StoreIdle /\ CrawlInit /\ UtilIdle

SchedRest == UNCHANGED <<storeVars, cr, utilVars>>

Next ==
    \/ \E p \in Manuals, k \in {"run_once", "collect"} : TriggerEnter(p, k) /\ SchedRest
    \/ \E p \in Manuals : InitResume(p) /\ SchedRest
    \/ \E p \in Procs : RunSet(p) /\ SchedRest
    \/ \E p \in Procs, ok \in BOOLEAN : GetEnabled(p, ok) /\ SchedRest
    \/ \E p \in Procs, raised \in BOOLEAN : ProcessSubscription(p, raised) /\ SchedRest
    \/ \E p \in Threads, due \in BOOLEAN : ThreadPoll(p, due) /\ SchedRest
    \/ StartBegin /\ SchedRest
    \/ StartArm /\ SchedRest
    \/ StopBegin /\ SchedRest
    \/ StopJoin /\ SchedRest
    \/ \E o \in {"ok", "timeout", "error"}, closed \in BOOLEAN : StopCleanup(o, closed) /\ SchedRest
    \/ StopReturn /\ SchedRest

Spec == Init /\ [][Next]_vars

\* the main loop runs the coroutine that is not suspended
MainLoopStep == \E p \in Manuals : loopOwner = p /\ (RunSet(p) \/ \E ok \in BOOLEAN : GetEnabled(p, ok))

\* Spec with the progress stop() can count on: join(timeout=2) and
\* wait_for(..., timeout=2) return, the main loop runs its current coroutine.
FairSpec ==
    /\ Spec
    /\ WF_vars(StopJoin /\ SchedRest)
    /\ WF_vars(\E o \in {"ok", "timeout", "error"}, closed \in BOOLEAN : StopCleanup(o, closed) /\ SchedRest)
    /\ WF_vars(MainLoopStep /\ SchedRest)

StoreInit == StoreInit0 /\ CrawlInit /\ SchedIdle /\ UtilIdle

StoreRest == UNCHANGED <<cr, schedVars, utilVars>>

StoreNext ==
    \/ \E c \in Calls, l \in Loops, u \in Urls, t \in Titles : CreateInsert(c, l, u, t) /\ StoreRest
    \/ \E c \in Calls : CreateCommit(c) /\ StoreRest
    \/ \E c \in Calls, a \in AnalyzeResults : CreateAnalyze(c, a) /\ StoreRest
    \/ \E c \in Calls : CreateUpdate(c) /\ StoreRest
    \/ \E c \in Calls : CreateUpdateFailed(c) /\ StoreRest
    \/ Migrate /\ StoreRest

StoreSpec == StoreInit /\ [][StoreNext]_vars

CrawlSpecInit == CrawlInit /\ StoreIdle /\ SchedIdle /\ UtilIdle

CrawlRest == UNCHANGED <<storeVars, schedVars, utilVars>>

CrawlNext ==
    \/ \E k \in Crawlers, m \in ResultLimits, creds \in BOOLEAN : CrawlBegin(k, m, creds) /\ CrawlRest
    \/ \E ok \in BOOLEAN : HomeRequest(ok) /\ CrawlRest
    \/ \E resp \in {"raise", "malformed", "page", "captcha"}, n \in 0..MaxItems : SearchRequest(resp, n) /\ CrawlRest
    \/ \E o \in {"article", "skip", "raise"} : ParseItem(o) /\ CrawlRest
    \/ \E o \in {"ok", "no_browser", "setup_raises"} : InitDriver(o) /\ CrawlRest
    \/ \E resp \in {"raise", "invalid", "captcha", "page"}, n \in 0..MaxItems : LoadPage(resp, n) /\ CrawlRest
    \/ \E o \in {"article", "skip", "raise"} : ParseLink(o) /\ CrawlRest
    \/ \E ok \in BOOLEAN : CloseDriver(ok) /\ CrawlRest
    \/ CrawlAgain /\ CrawlRest

CrawlSpec == CrawlSpecInit /\ [][CrawlNext]_vars

\* the rest of the program at rest, for the specifications of one utility
BaseIdle == StoreIdle /\ CrawlInit /\ SchedIdle

baseVars == <<storeVars, cr, schedVars>>

ResolveSpecInit == ResolveInit /\ BaseIdle /\ FanIdle /\ RetryIdle /\ ProviderIdle /\ FilterIdle /\ ScoreIdle /\ GatherIdle /\ SaveIdle

ResolveRest == UNCHANGED <<baseVars, fan, retryVars, srch, flt, sc, gat, sv>>

ResolveNext ==
    \/ \E u \in HttpUrls \cup PlainUrls : ResolveCall(u) /\ ResolveRest
    \/ ResolveHop /\ ResolveRest
    \/ ResolveAgain /\ ResolveRest

ResolveSpec == ResolveSpecInit /\ [][ResolveNext]_vars

FanSpecInit == FanIdle /\ BaseIdle /\ ResolveIdle /\ RetryIdle /\ ProviderIdle /\ FilterIdle /\ ScoreIdle /\ GatherIdle /\ SaveIdle

FanRest == UNCHANGED <<baseVars, resolveVars, retryVars, srch, flt, sc, gat, sv>>

FanNext ==
    \/ \E qs \in SeqsUpTo(Queries, MaxQueries), ps \in SeqsUpTo(Providers, MaxProviders) :
          FanCall(qs, ps) /\ FanRest
    \/ \E k \in 1..(MaxQueries * MaxProviders), o \in Outcomes, fb \in Outcomes :
          SearchEnds(k, o, fb) /\ FanRest
    \/ Collect /\ FanRest
    \/ FanReturn /\ FanRest
    \/ FanAgain /\ FanRest

FanSpec == FanSpecInit /\ [][FanNext]_vars

RetrySpecInit == RetryIdle /\ BaseIdle /\ ResolveIdle /\ FanIdle /\ ProviderIdle /\ FilterIdle /\ ScoreIdle /\ GatherIdle /\ SaveIdle

RetryRest == UNCHANGED <<baseVars, resolveVars, fan, srch, flt, sc, gat, sv>>

RetryNext ==
    \/ \E mr \in 0..MaxRetries : ChatCall(mr) /\ RetryRest
    \/ \E o \in PostOutcomes : ChatAttempt(o) /\ RetryRest
    \/ ChatAgain /\ RetryRest
    \/ \E mr \in 0..MaxRetries, configured \in BOOLEAN : ApiCall(mr, configured) /\ RetryRest
    \/ \E o \in GetOutcomes : ApiAttempt(o) /\ RetryRest
    \/ ApiAgain /\ RetryRest

RetrySpec == RetrySpecInit /\ [][RetryNext]_vars

ProviderSpecInit == ProviderIdle /\ BaseIdle /\ ResolveIdle /\ FanIdle /\ RetryIdle /\ FilterIdle /\ ScoreIdle /\ GatherIdle /\ SaveIdle

ProviderRest == UNCHANGED <<baseVars, resolveVars, fan, retryVars, flt, sc, gat, sv>>

ProviderNext ==
    \/ \E pv \in SearchProviders, year \in BOOLEAN : SearchCall(pv, year) /\ ProviderRest
    \/ \E o \in LightOutcomes : LightAttempt(o) /\ ProviderRest
    \/ \E ok \in BOOLEAN : OptimizedAttempt(ok) /\ ProviderRest
    \/ \E started \in BOOLEAN : BrowserStart(started) /\ ProviderRest
    \/ \E o \in {"results", "none", "raises"}, quitOk \in BOOLEAN : BrowserFetch(o, quitOk) /\ ProviderRest
    \/ \E ok \in BOOLEAN : FinalRequests(ok) /\ ProviderRest
    \/ SearchAgain /\ ProviderRest

ProviderSpec == ProviderSpecInit /\ [][ProviderNext]_vars

FilterSpecInit == FilterIdle /\ BaseIdle /\ ResolveIdle /\ FanIdle /\ RetryIdle /\ ProviderIdle /\ ScoreIdle /\ GatherIdle /\ SaveIdle

FilterRest == UNCHANGED <<baseVars, resolveVars, fan, retryVars, srch, sc, gat, sv>>

FilterNext ==
    \/ \E ids \in SeqsUpTo(ArticleIds, MaxArticles), tc \in TargetCounts : FilterCall(ids, tc) /\ FilterRest
    \/ \E resp \in Responses2 : FilterRespond(resp) /\ FilterRest
    \/ FilterAgain /\ FilterRest

FilterSpec == FilterSpecInit /\ [][FilterNext]_vars

ScoreSpecInit == ScoreInit /\ BaseIdle /\ ResolveIdle /\ FanIdle /\ RetryIdle /\ ProviderIdle /\ FilterIdle /\ GatherIdle /\ SaveIdle

ScoreRest == UNCHANGED <<baseVars, resolveVars, fan, retryVars, srch, flt, gat, sv>>

ScoreNext == \E d \in {0, 1, 7} : ScoreRead(d) /\ ScoreRest

ScoreSpec == ScoreSpecInit /\ [][ScoreNext]_vars

GatherSpecInit ==
    /\ GatherIdle /\ BaseIdle /\ ResolveIdle /\ FanIdle /\ RetryIdle /\ ProviderIdle /\ FilterIdle
    /\ ScoreIdle /\ SaveIdle

GatherRest == UNCHANGED <<baseVars, resolveVars, fan, retryVars, srch, flt, sc, sv>>

GatherNext ==
    \/ \E cs \in CrawlerLists : GatherCall(cs) /\ GatherRest
    \/ \E raised \in BOOLEAN, n \in 0..MaxItems : CrawlerEnds(raised, n) /\ GatherRest
    \/ GatherAgain /\ GatherRest

GatherSpec == GatherSpecInit /\ [][GatherNext]_vars

SaveSpecInit ==
    /\ SaveIdle /\ StoreInit0 /\ CrawlInit /\ SchedIdle
    /\ ResolveIdle /\ FanIdle /\ RetryIdle /\ ProviderIdle /\ FilterIdle /\ ScoreIdle /\ GatherIdle

SaveRest == UNCHANGED <<cr, schedVars, resolveVars, fan, retryVars, srch, flt, sc, gat>>

SaveNext ==
    \/ \E urls \in ArticleLists : SaveCall(urls) /\ SaveRest
    \/ \E t \in Titles : SaveCreate(t) /\ SaveRest
    \/ \E c \in Calls : CreateCommit(c) /\ UNCHANGED sv /\ SaveRest
    \/ \E c \in Calls, a \in AnalyzeResults : CreateAnalyze(c, a) /\ UNCHANGED sv /\ SaveRest
    \/ \E c \in Calls : CreateUpdate(c) /\ UNCHANGED sv /\ SaveRest
    \/ \E c \in Calls : CreateUpdateFailed(c) /\ UNCHANGED sv /\ SaveRest
    \/ Migrate /\ UNCHANGED sv /\ SaveRest
    \/ SaveCollect /\ SaveRest

SaveSpec == SaveSpecInit /\ [][SaveNext]_vars

(***************************************************************************)
(* Claims about the scheduler (Spec, FairSpec)                             *)
(***************************************************************************)

C4_CollectSingleFlight ==
    \A p, q \in Procs :
        (p # q /\ InFetchPath(p) /\ InFetchPath(q)) =>
            (proc[p].kind # "collect" /\ proc[q].kind # "collect")

\* C7: an exception raised while one subscription is processed never ends
\* the run or collect-only execution with an exception and never leaves a
\* later subscription of the list unprocessed.
C7_KeywordIsolation ==
    \A p \in Procs :
        proc[p].caughtAt > 0 =>
            /\ proc[p].result # "raised"
            /\ proc[p].left = 0
            /\ proc[p].pc = "processing" => proc[p].pos <= Len(proc[p].snap)

\* C7 witness: the second subscription is being processed after the first
\* one raised.
C7_Witness ==
    \E p \in Procs : proc[p].pc = "processing" /\ proc[p].caughtAt = 1 /\ proc[p].pos = 2

InStop == life \in {"stop_join", "stop_cleanup"}

\* C10: stop() never raises, it has set the stop event and cleared the jobs
\* when it returns, and once called it returns.
C10_ShutdownCompletes ==
    /\ [](life # "raised")
    /\ [](life = "returned" => stop_event /\ jobs = 0)
    /\ (InStop ~> life = "returned")

\* C10 witness: stop() has returned while a periodic run is still in
\* progress on the loop thread (the join timed out).
C10_Witness == life = "returned" /\ \E t \in Threads : InRunBody(t)

(***************************************************************************)
(* Claims about the article store (StoreSpec)                              *)
(***************************************************************************)

Done(c) == call[c].pc = "done"

\* C2: of two create calls with the same URL, made one after the other on
\* a store that does not hold the URL, the first returns an id, the second
\* returns None, and one row holds the URL.
C2_IdempotentDedup ==
    \A a, b \in Calls :
        (Done(a) /\ Done(b) /\ a \in call[b].after
           /\ call[a].url = call[b].url /\ call[a].rowcount = 1) =>
            /\ call[a].result = "id"
            /\ call[b].result = "none"
            /\ Cardinality(RowsWithUrl(call[a].url)) = 1

\* two create calls overlap: neither had finished when the other began
Overlap(a, b) == a # b /\ a \notin call[b].after /\ b \notin call[a].after

\* C3: the store never holds two rows with one url, and of interleaved
\* create calls for one URL exactly one returns an id and every other one
\* returns None.
C3_OneWinner ==
    \A u \in Urls :
        /\ Cardinality(RowsWithUrl(u)) <= 1
        /\ LET cs == {c \in Calls : call[c].pc # "idle" /\ call[c].url = u}
           IN ((\A c \in cs : Done(c)) /\ (\E a, b \in cs : Overlap(a, b))) =>
                /\ Cardinality({c \in cs : call[c].result = "id"}) = 1
                /\ \A c \in cs : call[c].result \in {"id", "none"}

\* C5: a create call that inserted a new row returns without having waited
\* for the classifier call to finish.
C5_InsertDoesNotWait ==
    \A c \in Calls : (Done(c) /\ call[c].rowcount = 1) => ~call[c].waited

\* the stored row of the article a call inserted
RowOf(c) == rows[CHOOSE i \in 1..Len(rows) : rows[i].id = call[c].id]

\* C6: when the analysis of a newly inserted article fails (a failed
\* analyzer result, or the analysis result cannot be persisted), create
\* returns the id and the row ends failed with importance 50; no inserted
\* article is pending once create has finished.
C6_FailureIsTerminal ==
    \A c \in Calls :
        (Done(c) /\ call[c].rowcount = 1) =>
            /\ RowOf(c).status # "pending"
            /\ (call[c].analysis.status = "failed" \/ call[c].updateRaised) =>
                  /\ call[c].result = "id"
                  /\ RowOf(c).status = "failed"
                  /\ RowOf(c).score = DefaultScore

(***************************************************************************)
(* Claims about the crawlers (CrawlSpec)                                   *)
(***************************************************************************)

\* C9: crawl never raises, and returns the empty list when no request of
\* the call got a response.
C9_FailSoft ==
    /\ cr.result # "raised"
    /\ (cr.pc = "done" /\ cr.oks = 0) => cr.out = <<>>

\* C9 witness: a crawl has returned after every one of its requests raised.
C9_Witness == cr.pc = "done" /\ cr.result = "returned" /\ cr.reqs > 0 /\ cr.oks = 0

(***************************************************************************)
(* Claims about arming (Spec)                                              *)
(***************************************************************************)

\* the step in which a start() call ends
StartEnds == life = "start_init" /\ life' # "start_init"

\* the loop thread a start() call would start
NewThread == <<"t", scheduler_thread + 1>>

\* C11: a start() call registers the daily job and starts the loop thread
\* when the stored schedule is enabled, and does neither when it is
\* disabled; with a disabled schedule no loop thread exists and
\* no job is registered.
C11_ArmedIffEnabled ==
    /\ [][StartEnds =>
            IF scheduleEnabled
            THEN /\ life' = "idle"
                 /\ jobs' = jobs + 1
                 /\ scheduler_thread' = scheduler_thread + 1
                 /\ proc'[NewThread].pc = "poll"
            ELSE UNCHANGED <<jobs, scheduler_thread, proc>>]_vars
    /\ [](~scheduleEnabled => jobs = 0 /\ scheduler_thread = 0
                               /\ \A t \in Threads : proc[t].kind # "periodic")

(***************************************************************************)
(* Claims about resolve_url (ResolveSpec)                                  *)
(***************************************************************************)

\* a small fixed hop bound: every jump link of the cycle visited twice
HopBound == 2 * Cardinality(RedirectLinks)

\* C12: a resolve_url call performs at most a small fixed number of
\* resolution hops, also when two jump links lead to verification pages
\* that name each other as target.
C12_BoundedHops == rs.hops <= HopBound

(***************************************************************************)
(* Claims about search_if_needed (FanSpec)                                 *)
(***************************************************************************)

\* the labels perform_single_search gives the groups of a provider
LabelsOf(provider) ==
    CASE provider = "google" -> {"google (API)", "google"}
      [] provider = "other" -> {"bing (default)", "other"}
      [] provider = "duckduckgo" -> {"duckduckgo", "bing (fallback)"}
      [] OTHER -> {provider}

\* the provider a label names
NamedBy(tag) ==
    CASE tag = "google (API)" -> "google"
      [] tag \in {"bing (default)", "bing (fallback)"} -> "bing"
      [] OTHER -> tag

FanReturned == fan.pc = "done" /\ fan.queries # <<>>

\* group k belongs to the k-th pair in expression-major order
InPairOrder(k) ==
    LET m == Len(fan.providers)
    IN /\ fan.groups[k].query = fan.queries[((k - 1) \div m) + 1]
       /\ fan.groups[k].tag \in LabelsOf(fan.providers[((k - 1) % m) + 1])
       /\ fan.groups[k].res = fan.futures[k].res

\* C13 (as amended): search_if_needed never raises and returns one group
\* for every pair of expression and provider (an empty provider list counts
\* as bing), in expression-major, provider-minor order whatever the order
\* of completion; each group carries its expression and the label of the
\* provider that produced it, which for a failed DuckDuckGo search is
\* "bing (fallback)" with the result of the Bing search made in its place;
\* a search that raises contributes an error group in its own position.
C13_FanOut ==
    /\ fan.result # "raised"
    /\ FanReturned =>
          /\ Len(fan.groups) = Len(fan.queries) * Len(fan.providers)
          /\ \A k \in 1..Len(fan.groups) : InPairOrder(k)

\* C13 witness: two expressions on two providers have returned four groups,
\* one of them the error group of a search that raised.
C13_Witness ==
    /\ FanReturned
    /\ Len(fan.groups) = 4
    /\ fan.queries[1] # fan.queries[2]
    /\ fan.providers[1] # fan.providers[2]
    /\ \E k \in 1..4 : fan.groups[k].res = "error"
    /\ \E k \in 1..4 : fan.groups[k].res = "results"

\* C13 as stated: every group is tagged with the provider of its pair, and
\* a pair whose search failed contributes an empty or error group.
C13_TaggedWithOwnProvider ==
    FanReturned =>
        \A k \in 1..Len(fan.groups) :
            LET m == Len(fan.providers)
                provider == fan.providers[((k - 1) % m) + 1]
            IN /\ NamedBy(fan.groups[k].tag) = provider
               /\ fan.groups[k].tag = "bing (fallback)" => fan.groups[k].res # "results"

(***************************************************************************)
(* Claims about the retry loops (RetrySpec)                                *)
(***************************************************************************)

\* the attempts of the chat_completion call that ended in a RequestException
\* and were not the last one allowed
Backed == {k \in 1..Len(llm.outcomes) : llm.outcomes[k] \in Retried /\ k < llm.max_retries}

\* C14: chat_completion makes at most max_retries attempts; after a failed
\* attempt k (0-based) that is not the last it waits 2^k seconds, so the
\* delays strictly increase; it returns the content of the first attempt
\* that succeeds and None when all max_retries attempts have failed.
C14_RetryBackoff ==
    /\ Len(llm.outcomes) <= llm.max_retries
    /\ Len(llm.delays) = Cardinality(Backed)
    /\ \A k \in 1..Len(llm.delays) : llm.delays[k] = 2 ^ (k - 1)
    /\ \A j, k \in 1..Len(llm.delays) : j < k => llm.delays[j] < llm.delays[k]
    /\ \A k \in 1..(Len(llm.outcomes) - 1) : llm.outcomes[k] \in Retried
    /\ llm.pc = "done" /\ llm.max_retries > 0 =>
          /\ llm.out = "content" <=> llm.outcomes[Len(llm.outcomes)] = "content"
          /\ (\A k \in 1..Len(llm.outcomes) : llm.outcomes[k] \in Retried) =>
                Len(llm.outcomes) = llm.max_retries /\ llm.out = "None"

\* C14 witness: the third attempt succeeded after a time-out and a 5xx
\* status, with delays of 1 and 2 seconds.
C14_Witness ==
    /\ llm.pc = "done"
    /\ llm.outcomes = <<"timeout", "http_5xx", "content">>
    /\ llm.delays = <<1, 2>>
    /\ llm.out = "content"

\* C15: after an attempt has failed with an HTTP 4xx status other than 429
\* no further attempt is made, in chat_completion and in google_search_api.
C15_NoRetryOn4xx ==
    /\ \A k \in 1..Len(llm.outcomes) : llm.outcomes[k] = "http_4xx" => k = Len(llm.outcomes)
    /\ \A k \in 1..Len(gapi.outcomes) : gapi.outcomes[k] = "http_4xx" => k = Len(gapi.outcomes)

(***************************************************************************)
(* Claims about the provider searches (ProviderSpec)                       *)
(***************************************************************************)

BrowserTried == srch.browser # "none"

\* C16: the browser is started only after the first, non-browser attempt
\* errored, returned nothing or was judged irrelevant; in each of these
\* cases the call does not end without having tried the browser; relevant
\* results of the first attempt are returned without a browser.
C16_FallbackOrder ==
    /\ BrowserTried => srch.light \in {"error", "zero", "irrelevant"}
    /\ (srch.pc = "done" /\ srch.light \in {"error", "zero", "irrelevant"}) => BrowserTried
    /\ (srch.pc = "done" /\ srch.light = "relevant") => srch.out = "light_results" /\ ~BrowserTried

\* C17: when a call that went to the browser has returned, the profile
\* directory made for it has been removed.
C17_ProfileRemoved == srch.pc = "done" => srch.temp # "exists"

(***************************************************************************)
(* Claims about the verification check of the crawlers (CrawlSpec)         *)
(***************************************************************************)

\* the page an article of cr.articles was extracted from
PageOf(a) == (a - 1) \div 10

\* C18: no article is extracted from a page on which the crawler's
\* verification check was positive, and a crawl that met such a page does
\* not raise.
C18_CaptchaShortCircuit ==
    /\ \A i \in 1..Len(cr.articles) : PageOf(cr.articles[i]) \notin cr.flagged
    /\ cr.flagged # {} => cr.result # "raised"

(***************************************************************************)
(* Claims about duplicates and the analyzer (StoreSpec)                    *)
(***************************************************************************)

\* C19: once a call has inserted a URL, every other create call for that
\* URL inserts nothing, and the one row of the URL keeps the url and the
\* title of the call that inserted it.
C19_FirstWriterWins ==
    \A a, b \in Calls :
        (a # b /\ call[a].rowcount = 1 /\ call[b].pc # "idle" /\ call[b].url = call[a].url) =>
            /\ call[b].rowcount = 0
            /\ Cardinality(RowsWithUrl(call[a].url)) = 1
            /\ RowOf(a).url = call[a].url
            /\ RowOf(a).title = call[a].title

\* A has stored a URL and finished, then B has submitted it with another title
C19_Witness ==
    \E a, b \in Calls :
        /\ call[a].rowcount = 1 /\ Done(b) /\ a \in call[b].after
        /\ call[b].url = call[a].url /\ call[b].title # call[a].title
        /\ call[b].result = "none"

RECURSIVE Invocations(_)
\* the number of analyzer invocations made by the calls of S
Invocations(S) ==
    IF S = {} THEN 0
    ELSE LET c == CHOOSE x \in S : TRUE IN call[c].analyzed + Invocations(S \ {c})

\* C20: a create call that inserted a row invokes the analyzer once, by the
\* time it has finished; a call that hit a stored URL never invokes it; when
\* no call is under way the invocations are as many as the rows.
C20_AnalyzedOncePerInsert ==
    /\ \A c \in Calls :
          /\ call[c].analyzed <= call[c].rowcount
          /\ (Done(c) /\ call[c].rowcount = 1) => call[c].analyzed = 1
    /\ (\A c \in Calls : call[c].pc \in {"idle", "done"}) => Invocations(Calls) = Len(rows)

\* an insert and a duplicate have both finished
C20_Witness ==
    /\ \A c \in Calls : Done(c)
    /\ \E a, b \in Calls : call[a].analyzed = 1 /\ call[b].rowcount = 0 /\ call[b].url = call[a].url

(***************************************************************************)
(* Claims about runs, start and stop (Spec, FairSpec)                      *)
(***************************************************************************)

IsRun(p) == proc[p].kind \in {"run_once", "periodic"}

\* the number of times keyword k was handed to _process_subscription
TimesVisited(r, k) == Cardinality({i \in 1..Len(r.visited) : r.visited[i] = k})

\* C21: a run processes only subscriptions that are enabled, none of them
\* twice, in the order of the list it read; a run that completed has
\* processed every enabled subscription once; with no enabled subscription
\* nothing is processed.
C21_EachEnabledOnce ==
    \A p \in Procs :
        IsRun(p) =>
            /\ \A k \in Keywords : TimesVisited(proc[p], k) <= (IF IsEnabled(k) THEN 1 ELSE 0)
            /\ proc[p].pc = "processing" =>
                  proc[p].visited = SubSeq(proc[p].snap, 1, proc[p].pos - 1)
            /\ proc[p].result = "completed" =>
                  \A k \in Keywords : IsEnabled(k) => TimesVisited(proc[p], k) = 1
            /\ enabledSubs = {} => proc[p].visited = <<>> /\ proc[p].pc # "processing"

\* C21 witness: a run has completed with one subscription enabled and one
\* disabled
C21_Witness ==
    /\ enabledSubs = {"k1"}
    /\ \E p \in Procs : IsRun(p) /\ proc[p].result = "completed" /\ proc[p].visited = <<"k1">>

(***************************************************************************)
(* Claims about the ranker fallback (FilterSpec)                           *)
(***************************************************************************)

Smaller(a, b) == IF a < b THEN a ELSE b

\* C22: when the ranker call failed or its response could not be parsed,
\* filter_and_rank returns min(target_count, number of input articles)
\* entries, the i-th of which is the i-th input article, unchanged.
C22_FallbackTruncation ==
    (flt.pc = "done" /\ flt.failed) =>
        /\ Len(flt.out) = Smaller(flt.target, Len(flt.articles))
        /\ \A i \in 1..Len(flt.out) : flt.out[i].article = flt.articles[i]

\* C22 witness: a fallback that had to cut the input list
C22_Witness ==
    flt.pc = "done" /\ flt.failed /\ Len(flt.articles) = 2 /\ flt.target = 1 /\ Len(flt.out) = 1

(***************************************************************************)
(* Claims about scoring (ScoreSpec)                                        *)
(***************************************************************************)

Scored == sc.cur[1].at >= 0

\* two articles with one body, the first crawled before the second
OlderAndYounger == sc.arts[1].body = sc.arts[2].body /\ sc.arts[1].crawled_at < sc.arts[2].crawled_at

C24_ScoreNeverRises ==
    \A i \in 1..2 :
        (sc.prev[i].at >= 0 /\ sc.prev[i].at <= sc.cur[i].at) => sc.cur[i].final <= sc.prev[i].final

\* C24 witness: two reads some hours apart, the second with a lower score
C24_Witness ==
    \E i \in 1..2 : sc.prev[i].at >= 0 /\ sc.prev[i].at < sc.cur[i].at /\ sc.cur[i].final < sc.prev[i].final

(***************************************************************************)
(* Claims about the crawlers of one keyword (GatherSpec)                   *)
(***************************************************************************)

RECURSIVE Concatenation(_)
\* the lists of the crawlers that did not raise, one after the other
Concatenation(rets) ==
    IF rets = <<>> THEN <<>>
    ELSE (IF Head(rets).raised THEN <<>> ELSE Head(rets).list) \o Concatenation(Tail(rets))

\* C25: when _crawl_articles returns, every configured crawler has been
\* invoked once, in the configured order, and the list returned is the
\* concatenation in that order of the lists of the crawlers that did not
\* raise.
C25_ProviderIsolation ==
    gat.pc = "done" =>
        /\ gat.invoked = gat.crawlers
        /\ gat.out = Concatenation(gat.returned)
        /\ \A i \in 1..Len(gat.out) :
              \E j \in 1..Len(gat.returned) :
                  ~gat.returned[j].raised /\ gat.out[i][1] = gat.crawlers[j]

\* C25 witness: the first crawler raised and a later one returned articles
C25_Witness ==
    /\ gat.pc = "done"
    /\ gat.returned[1].raised
    /\ \E j \in 2..Len(gat.returned) : ~gat.returned[j].raised /\ gat.returned[j].list # <<>>
    /\ gat.out # <<>>

(***************************************************************************)
(* More claims about runs, start and stop (Spec, FairSpec)                 *)
(***************************************************************************)

\* p leaves the body of run in this step, by return or by exception
RunEnds(p) == IsRun(p) /\ InRunBody(p) /\ ~(proc'[p].pc \in {"get_enabled", "processing"})

\* C26: the step in which a run leaves its body, whether it found no
\* subscription, completed or raised, leaves the running flag false; the
\* flag is never true without a run inside its body.
C26_ReturnsToIdle ==
    /\ [][\A p \in Procs : RunEnds(p) => ~running']_vars
    /\ [](running => \E p \in Procs : InRunBody(p))

\* C26 witness: a run has raised while reading the subscriptions and the
\* flag is false
C26_Witness ==
    ~running /\ \E p \in Procs : IsRun(p) /\ proc[p].result = "raised" /\ proc[p].visited = <<>>

\* C27: the task's connection is never closed while a run, periodic or
\* manual, is inside its body.
C27_NoCloseDuringRun == ~(conn = "closed" /\ \E p \in Procs : InRunBody(p))

\* the loop thread of the latest start()
Newest == <<"t", scheduler_thread>>

Initializing == {p \in Manuals : proc[p].pc = "init_wait"}

\* C29: a manual trigger enters initialize only in a step that takes
\* task.db from None to a Database, task.db never becomes None again, each
\* initialize of a trigger opens one connection, and no two triggers are
\* inside initialize together.
C29_InitOnce ==
    /\ [][/\ \A p \in Manuals :
               /\ (p \notin Initializing /\ proc'[p].pc = "init_wait") =>
                      (taskDb = "none" /\ taskDb' # "none")
               /\ (p \in Initializing /\ proc'[p].pc # "init_wait") =>
                      connsOpened' = connsOpened + 1
          /\ taskDb # "none" => taskDb' # "none"]_vars
    /\ [](Cardinality(Initializing) <= 1)

\* C29 witness: a second trigger has arrived while the first is inside
\* initialize, and has gone past the test of task.db
C29_Witness ==
    \E p, q \in Manuals :
        p # q /\ proc[p].pc = "init_wait" /\ proc[q].kind # "none" /\ connsOpened = 0

(***************************************************************************)
(* Claims about _save_articles (SaveSpec)                                  *)
(***************************************************************************)

\* C30: the count _save_articles returns is the number of rows the call
\* added to the store, which was empty when the call began.
C30_CountIsRowsAdded == sv.pc = "done" => sv.saved_count = Len(rows)

====
